---------------------------- MODULE Spec2Model ----------------------------
(***************************************************************************)
(* Model of the object layer of Git-Rust (src/models/blob.rs and           *)
(* src/models/tree.rs): Blob::new / Blob::save, the recursive builder      *)
(* store_path_to_tree behind Tree::new, Tree::save / Tree::load and the    *)
(* two traversals get_recursive_file_entries / get_recursive_blobs.        *)
(*                                                                         *)
(* A relative path is the sequence of its components: "mit_src/a.txt" is   *)
(* <<"mit_src", "a.txt">> and the empty path "" is <<>>.  The recursion of *)
(* store_path_to_tree is unfolded into an explicit call stack, one frame   *)
(* per active call, one action per loop iteration.                         *)
(***************************************************************************)
EXTENDS Integers, Sequences, FiniteSets, TLC

(* ------------------------------ bounds --------------------------------- *)
\* longest list of tracked files handed to Tree::new
MaxPaths == 3
\* number of nested calls of store_path_to_tree the thread's stack can hold
MaxStack == 4

\* the tracked files a behaviour draws its list from
PathUniverse ==
    { <<"b.txt">>, <<"c.txt">>,
      <<"mit_src", "a.txt">>, <<"mit_src", "d.txt">>,
      <<"lib", "a.txt">>,
      <<"mit_src", "lib", "a.txt">> }

\* the possible contents of a tracked file
Contents == {"hello", "world"}

Range(s) == {s[i] : i \in 1..Len(s)}

\* the lists Index::get_tracked_files can return: no file is listed twice
PathLists ==
    { l \in UNION {[1..n -> PathUniverse] : n \in 0..MaxPaths} :
        \A i, j \in 1..Len(l) : l[i] = l[j] => i = j }

(* --------------------------- external parts ---------------------------- *)
\* util::calc_hash: an injective fingerprint of the content
calc_hash(data) == <<"sha", data>>

\* the default String of a Tree whose hash has not been computed
NoHash == <<>>

\* util::get_file_mode for a regular file and for a directory
BlobMode == "100644"
TreeMode == "40000"

\* Store::contains
StoreContains(s, hash) == hash \in DOMAIN s

\* Store::save: write the content under its hash unless it is there already
StoreSave(s, data) ==
    IF calc_hash(data) \in DOMAIN s
    THEN s
    ELSE [k \in DOMAIN s \cup {calc_hash(data)} |->
             IF k = calc_hash(data) THEN data ELSE s[k]]

\* Store::load of a key that is present
StoreLoad(s, hash) == s[hash]

EmptyStore == [k \in {} |-> <<>>]

(* ------------------------------- blob.rs ------------------------------- *)
\* the raw content of a file as the Store keeps it
FileData(content) == <<content>>

\* Blob::new without its save: Blob { hash, data }
BlobOf(content) ==
    [hash |-> calc_hash(FileData(content)), data |-> FileData(content)]

\* a save that writes only what is already there
BlobSaveInverted(s, blob) ==
    IF StoreContains(s, blob.hash) THEN StoreSave(s, blob.data) ELSE s

\* a read whose failure is swallowed
ReadFailsIgnored(file, unreadable_files) == FALSE

\* fs::read_to_string(file).expect(..) panics
ReadFails(file, unreadable_files) == file \in unreadable_files

\* Blob::save
BlobSave(s, blob) ==
    IF ~StoreContains(s, blob.hash) THEN StoreSave(s, blob.data) ELSE s

(* ------------------------------- tree.rs ------------------------------- *)
\* path.parent()
Parent(path) == SubSeq(path, 1, Len(path) - 1)

\* path.file_name()
FileName(path) == path[Len(path)]

\* path.components().count()
ComponentsCount(path) == Len(path)

\* path.components().nth(0)
FirstComponent(path) == path[1]

\* the entry get_blob_entry makes for a file
get_blob_entry(path, content) ==
    [filemode |-> <<"blob", BlobMode>>,
     object_hash |-> BlobOf(content).hash,
     name |-> FileName(path)]

\* the entry pushed for a subdirectory after its recursive call returned
TreeEntryOf(process_path, sub_tree) ==
    [filemode |-> <<"tree", TreeMode>>,
     object_hash |-> sub_tree.hash,
     name |-> process_path]

\* serde's rendering of one TreeEntry: its fields in declaration order
EntryJson(e) ==
    << <<"filemode", e.filemode>>,
       <<"object_hash", e.object_hash>>,
       <<"name", e.name>> >>

\* a rendering that also writes the hash field of the Tree
SerializeWithHash(tree) ==
    <<"{", <<"hash", tree.hash>>,
      <<"entries", [i \in 1..Len(tree.entries) |-> EntryJson(tree.entries[i])]>>,
      "}">>

\* serde_json::to_string_pretty(&Tree): hash is #[serde(skip)]
Serialize(tree) ==
    <<"{",
      <<"entries", [i \in 1..Len(tree.entries) |-> EntryJson(tree.entries[i])]>>,
      "}">>

\* the value of a named field of a rendered object
Field(obj, key) ==
    LET i == CHOOSE j \in 1..Len(obj) : Len(obj[j]) = 2 /\ obj[j][1] = key
    IN  obj[i][2]

EntryFromJson(obj) ==
    [filemode |-> Field(obj, "filemode"),
     object_hash |-> Field(obj, "object_hash"),
     name |-> Field(obj, "name")]

\* serde_json::from_str::<Tree>: the skipped hash takes its default
Deserialize(data) ==
    LET members == SubSeq(data, 2, Len(data) - 1)
        arr     == Field(members, "entries")
    IN  [hash |-> NoHash,
         entries |-> [i \in 1..Len(arr) |-> EntryFromJson(arr[i])]]

\* a save that forgets to record the hash in the Tree
TreeAfterSaveNoHash(tree) == tree

\* Tree::save: the Tree as it is after the call
TreeAfterSave(tree) == [tree EXCEPT !.hash = calc_hash(Serialize(tree))]

\* Tree::save: the Store as it is after the call
TreeSaveStore(s, tree) == StoreSave(s, Serialize(tree))

\* a load that leaves the hash at its default
TreeLoadNoHash(s, hash) == Deserialize(StoreLoad(s, hash))

\* Tree::load
TreeLoad(s, hash) == [Deserialize(StoreLoad(s, hash)) EXCEPT !.hash = hash]

\* a check that never finds a directory already handled
AlreadyProcessedNever(processed_path, process_path) == FALSE

\* processed_path.insert(..).is_some()
AlreadyProcessed(processed_path, process_path) ==
    process_path \in processed_path

\* a join that drops the directory name
JoinNameDropped(name, file) == file

\* PathBuf::from(entry.name).join(file)
JoinName(name, file) == <<name>> \o file

RECURSIVE Flatten(_)
Flatten(seqs) == IF seqs = <<>> THEN <<>> ELSE Head(seqs) \o Flatten(Tail(seqs))

\* every Tree the traversal of `tree` loads is in the Store
RECURSIVE Loadable(_, _)
Loadable(s, tree) ==
    \A i \in 1..Len(tree.entries) :
        tree.entries[i].filemode[1] = "blob"
        \/ /\ StoreContains(s, tree.entries[i].object_hash)
           /\ Loadable(s, TreeLoad(s, tree.entries[i].object_hash))

\* Tree::get_recursive_file_entries
RECURSIVE get_recursive_file_entries(_, _)
get_recursive_file_entries(s, tree) ==
    Flatten([i \in 1..Len(tree.entries) |->
        LET entry == tree.entries[i] IN
        IF entry.filemode[1] = "blob"
        THEN << <<entry.name>> >>
        ELSE LET sub_files ==
                   get_recursive_file_entries(s, TreeLoad(s, entry.object_hash))
             IN  [k \in 1..Len(sub_files) |-> JoinName(entry.name, sub_files[k])]])

\* Tree::get_recursive_blobs
RECURSIVE get_recursive_blobs(_, _)
get_recursive_blobs(s, tree) ==
    Flatten([i \in 1..Len(tree.entries) |->
        LET entry == tree.entries[i] IN
        IF entry.filemode[1] = "blob"
        THEN << << <<entry.name>>, entry.object_hash >> >>
        ELSE LET sub_blobs ==
                   get_recursive_blobs(s, TreeLoad(s, entry.object_hash))
             IN  [k \in 1..Len(sub_blobs) |->
                    <<JoinName(entry.name, sub_blobs[k][1]), sub_blobs[k][2]>>]])

(* ------------------------------- state --------------------------------- *)
VARIABLES
    paths,       \* the list of tracked files handed to Tree::new
    content,     \* the content of each tracked file in the working directory
    unreadable,  \* the tracked files fs::read_to_string cannot read
    store,       \* the object Store: hash -> content
    stack,       \* the active calls of store_path_to_tree, outermost first
    phase,       \* "building", "done", "failed" (a panic), "overflow"
    result,      \* the Tree returned by Tree::new
    built,       \* history: current_root -> Tree saved by this build
    prev,        \* history: the build before the last change of a file
    traversal,   \* outcome of the traversals of the reloaded Tree
    lastSave     \* the last repeated save and the hash it returned

vars == <<paths, content, unreadable, store, stack, phase, result, built,
          prev, traversal, lastSave>>

NoTree == [hash |-> NoHash, entries |-> <<>>]

EmptyFn == [k \in {} |-> NoTree]

NoPrev == [valid |-> FALSE, built |-> EmptyFn, content |-> EmptyFn, file |-> <<>>]

NoTraversal ==
    [state |-> "none", root |-> <<>>, loaded |-> NoTree,
     files |-> <<>>, blobs |-> <<>>]

NoSave == [kind |-> "none", first |-> NoHash, hash |-> NoHash]

\* a fresh call store_path_to_tree(path_entries, current_root)
NewFrame(current_root) ==
    [current_root |-> current_root, i |-> 1, tree |-> NoTree,
     processed_path |-> {}]

Init ==
    /\ paths \in PathLists
    /\ content \in [Range(paths) -> Contents]
    /\ unreadable \in {u \in SUBSET Range(paths) : Cardinality(u) <= 1}
    /\ store = EmptyStore
    /\ stack = <<NewFrame(<<>>)>>
    /\ phase = "building"
    /\ result = NoTree
    /\ built = EmptyFn
    /\ prev = NoPrev
    /\ traversal = NoTraversal
    /\ lastSave = NoSave

top == stack[Len(stack)]

Scanning == phase = "building" /\ top.i <= Len(paths)

path == paths[top.i]

\* let in_path = path.parent().unwrap() == current_root
in_path == Parent(path) = top.current_root

ReplaceTop(frame) == [stack EXCEPT ![Len(stack)] = frame]

history == <<paths, content, unreadable, prev, traversal, lastSave>>

\* a direct file: Blob::new reads it, saves the blob, the entry is pushed
BlobEntry ==
    /\ Scanning
    /\ in_path
    /\ ~ReadFails(path, unreadable)
    /\ store' = BlobSave(store, BlobOf(content[path]))
    /\ stack' = ReplaceTop([top EXCEPT
                   !.tree.entries = Append(@, get_blob_entry(path, content[path])),
                   !.i = @ + 1])
    /\ UNCHANGED <<phase, result, built, history>>

\* a direct file that cannot be read: expect() panics, the build is over
BlobReadFails ==
    /\ Scanning
    /\ in_path
    /\ ReadFails(path, unreadable)
    /\ phase' = "failed"
    /\ UNCHANGED <<store, stack, result, built, history>>

\* if path.components().count() == 1 { continue; }
SkipTopLevel ==
    /\ Scanning
    /\ ~in_path
    /\ ComponentsCount(path) = 1
    /\ stack' = ReplaceTop([top EXCEPT !.i = @ + 1])
    /\ UNCHANGED <<store, phase, result, built, history>>

\* the directory was handled by this call already: continue
SkipProcessed ==
    /\ Scanning
    /\ ~in_path
    /\ ComponentsCount(path) # 1
    /\ AlreadyProcessed(top.processed_path, FirstComponent(path))
    /\ stack' = ReplaceTop([top EXCEPT !.i = @ + 1])
    /\ UNCHANGED <<store, phase, result, built, history>>

\* the recursive call store_path_to_tree(path_entries, process_path.into())
Descend ==
    /\ Scanning
    /\ ~in_path
    /\ ComponentsCount(path) # 1
    /\ ~AlreadyProcessed(top.processed_path, FirstComponent(path))
    /\ Len(stack) < MaxStack
    /\ stack' = Append(
          ReplaceTop([top EXCEPT !.processed_path = @ \cup {FirstComponent(path)}]),
          NewFrame(<<FirstComponent(path)>>))
    /\ UNCHANGED <<store, phase, result, built, history>>

\* the same call when the stack has no room left: the process aborts
StackOverflow ==
    /\ Scanning
    /\ ~in_path
    /\ ComponentsCount(path) # 1
    /\ ~AlreadyProcessed(top.processed_path, FirstComponent(path))
    /\ Len(stack) = MaxStack
    /\ phase' = "overflow"
    /\ UNCHANGED <<store, stack, result, built, history>>

\* the end of the loop: tree.save(), the Tree is returned; the caller
\* pushes the Tree entry and goes on with its next path
Return ==
    /\ phase = "building"
    /\ top.i > Len(paths)
    /\ LET tree      == TreeAfterSave(top.tree)
           caller    == stack[Len(stack) - 1]
           sub_entry == TreeEntryOf(top.current_root[1], tree)
       IN  /\ store' = TreeSaveStore(store, top.tree)
           /\ built' = [k \in DOMAIN built \cup {top.current_root} |->
                           IF k = top.current_root THEN tree ELSE built[k]]
           /\ IF Len(stack) = 1
              THEN /\ stack' = <<>>
                   /\ phase' = "done"
                   /\ result' = tree
              ELSE /\ stack' = [SubSeq(stack, 1, Len(stack) - 1) EXCEPT
                        ![Len(stack) - 1] = [caller EXCEPT
                            !.tree.entries = Append(@, sub_entry),
                            !.i = @ + 1]]
                   /\ UNCHANGED <<phase, result>>
    /\ UNCHANGED history

\* Tree::load of the hash of a Tree of this build, then both traversals of
\* the loaded Tree; a load of a hash the Store does not hold fails
Traverse ==
    /\ phase = "done"
    /\ \E k \in DOMAIN built :
          IF StoreContains(store, built[k].hash)
             /\ Loadable(store, TreeLoad(store, built[k].hash))
          THEN LET loaded_tree == TreeLoad(store, built[k].hash)
               IN  traversal' =
                     [state |-> "ok", root |-> k, loaded |-> loaded_tree,
                      files |-> get_recursive_file_entries(store, loaded_tree),
                      blobs |-> get_recursive_blobs(store, loaded_tree)]
          ELSE traversal' = [NoTraversal EXCEPT !.state = "store_miss", !.root = k]
    /\ UNCHANGED <<paths, content, unreadable, store, stack, phase, result,
                   built, prev, lastSave>>

\* save() called again on a Tree this build has saved
ResaveTree ==
    /\ phase = "done"
    /\ \E k \in DOMAIN built :
          /\ store' = TreeSaveStore(store, built[k])
          /\ lastSave' = [kind |-> "tree", first |-> built[k].hash,
                          hash |-> TreeAfterSave(built[k]).hash]
    /\ UNCHANGED <<paths, content, unreadable, stack, phase, result, built,
                   prev, traversal>>

\* save() called again on the Blob of a tracked file
ResaveBlob ==
    /\ phase = "done"
    /\ \E file \in Range(paths) :
          /\ store' = BlobSave(store, BlobOf(content[file]))
          /\ lastSave' = [kind |-> "blob", first |-> BlobOf(content[file]).hash,
                          hash |-> BlobOf(content[file]).hash]
    /\ UNCHANGED <<paths, content, unreadable, stack, phase, result, built,
                   prev, traversal>>

\* the content of one tracked file is changed in the working directory and
\* Tree::new is run again on the same list, over the same Store
Rebuild ==
    /\ phase = "done"
    /\ ~prev.valid
    /\ \E file \in Range(paths) : \E c \in Contents \ {content[file]} :
          /\ content' = [content EXCEPT ![file] = c]
          /\ prev' = [valid |-> TRUE, built |-> built, content |-> content,
                      file |-> file]
    /\ stack' = <<NewFrame(<<>>)>>
    /\ phase' = "building"
    /\ result' = NoTree
    /\ built' = EmptyFn
    /\ traversal' = NoTraversal
    /\ lastSave' = NoSave
    /\ UNCHANGED <<paths, unreadable, store>>

Next ==
    \/ BlobEntry
    \/ BlobReadFails
    \/ SkipTopLevel
    \/ SkipProcessed
    \/ Descend
    \/ StackOverflow
    \/ Return
    \/ Traverse
    \/ ResaveTree
    \/ ResaveBlob
    \/ Rebuild

Spec == Init /\ [][Next]_vars

(* ------------------------------ properties ----------------------------- *)
IsPrefix(q, r) == Len(q) <= Len(r) /\ SubSeq(r, 1, Len(q)) = q

\* the traversals have been run on the reloaded root Tree of a finished build
RootTraversed ==
    phase = "done" /\ traversal.state = "ok" /\ traversal.root = <<>>

\* C1 (Completeness): Tree::new on any list F of readable tracked files,
\* whatever its directories and nesting, returns a Tree, and
\* get_recursive_file_entries on that Tree returns exactly the paths of F.
C1_Completeness ==
    /\ (unreadable = {} /\ phase # "building") => phase = "done"
    /\ RootTraversed => Range(traversal.files) = Range(paths)

\* C2 (Termination of the build): the recursion of store_path_to_tree never
\* re-enters a prefix that is still active (which, the call being a function
\* of the list and the prefix alone, is to recurse forever on it), and it
\* never exhausts the stack.
C2_Termination ==
    /\ phase # "overflow"
    /\ \A i, j \in 1..Len(stack) :
          stack[i].current_root = stack[j].current_root => i = j

\* the (kind, name) of the entries a scan of the list, top to bottom, emits
\* for the directory q: a blob per direct file, a tree per subdirectory at
\* the position of its first path
ScanSlot(q, i) ==
    IF Parent(paths[i]) = q
    THEN << <<"blob", FileName(paths[i])>> >>
    ELSE IF /\ IsPrefix(q, Parent(paths[i]))
            /\ \A j \in 1..(i - 1) :
                  ~(/\ IsPrefix(q, Parent(paths[j]))
                    /\ Parent(paths[j]) # q
                    /\ paths[j][Len(q) + 1] = paths[i][Len(q) + 1])
         THEN << <<"tree", paths[i][Len(q) + 1]>> >>
         ELSE <<>>

ScanOrder(q) == Flatten([i \in 1..Len(paths) |-> ScanSlot(q, i)])

KindsAndNames(entries) ==
    [i \in 1..Len(entries) |-> <<entries[i].filemode[1], entries[i].name>>]

\* C3 (Entry order): the entry list of every Tree built for a prefix is the
\* scan order of the input list, each subdirectory once at the position of
\* its first path, nothing sorted; for ["b.txt", "mit_src/a.txt"] the root
\* has 2 entries and get_recursive_file_entries returns that list in order.
C3_EntryOrder ==
    /\ \A q \in DOMAIN built : KindsAndNames(built[q].entries) = ScanOrder(q)
    /\ (phase = "done" /\ paths = << <<"b.txt">>, <<"mit_src", "a.txt">> >>)
          => /\ Len(result.entries) = 2
             /\ RootTraversed => traversal.files = paths

C3_Witness ==
    /\ RootTraversed
    /\ paths = << <<"mit_src", "a.txt">>, <<"b.txt">>, <<"mit_src", "d.txt">> >>
    /\ traversal.files =
          << <<"mit_src", "a.txt">>, <<"mit_src", "d.txt">>, <<"b.txt">> >>

\* C4 (Hash fidelity): every (path, hash) pair get_recursive_blobs returns on
\* the reloaded Tree of a build names a tracked file and the hash of the
\* content that file had at build time, one pair per tracked file.
C4_HashFidelity ==
    RootTraversed =>
        /\ Len(traversal.blobs) = Len(paths)
        /\ \A k \in 1..Len(traversal.blobs) :
              /\ traversal.blobs[k][1] \in Range(paths)
              /\ traversal.blobs[k][2] =
                    calc_hash(FileData(content[traversal.blobs[k][1]]))
        /\ \A file \in Range(paths) :
              Cardinality({k \in 1..Len(traversal.blobs) :
                              traversal.blobs[k][1] = file}) = 1

C4_Witness ==
    /\ RootTraversed
    /\ Len(traversal.blobs) = 3
    /\ \E k \in 1..3 : Len(traversal.blobs[k][1]) = 2
    /\ \E j, k \in 1..3 : traversal.blobs[j][2] # traversal.blobs[k][2]

\* C5 (Reload fidelity): Tree::load of the hash that T.save() returned gives
\* a Tree with T's entries, equal in content and order, and with that hash.
C5_ReloadFidelity ==
    traversal.state # "none" =>
        /\ traversal.state = "ok"
        /\ traversal.loaded.entries = built[traversal.root].entries
        /\ traversal.loaded.hash = built[traversal.root].hash
        /\ traversal.loaded.hash = calc_hash(Serialize(built[traversal.root]))

C5_Witness ==
    /\ traversal.state = "ok"
    /\ Len(traversal.loaded.entries) = 3
    /\ \E i \in 1..3 : traversal.loaded.entries[i].filemode[1] = "tree"

\* the entry of the Tree at q that leads to the file: its own blob entry, or
\* the tree entry of the directory it lies under
OnPath(q, e, file) ==
    \/ e.filemode[1] = "blob" /\ q \o <<e.name>> = file
    \/ e.filemode[1] = "tree" /\ IsPrefix(q \o <<e.name>>, Parent(file))

\* C6 (Merkle propagation): of two builds of the same list that differ in
\* the content of one file, the file's blob hash differs, the hash of every
\* Tree from the file's directory up to the root differs, and the
\* object_hash of every entry off that path is the same.
C6_MerklePropagation ==
    (phase = "done" /\ prev.valid) =>
        /\ DOMAIN built = DOMAIN prev.built
        /\ Parent(prev.file) \in DOMAIN built
        /\ \A q \in DOMAIN built :
              /\ IsPrefix(q, Parent(prev.file))
                    => built[q].hash # prev.built[q].hash
              /\ Len(built[q].entries) = Len(prev.built[q].entries)
              /\ \A i \in 1..Len(built[q].entries) :
                    (built[q].entries[i].object_hash
                        = prev.built[q].entries[i].object_hash)
                    <=> ~OnPath(q, built[q].entries[i], prev.file)

C6_Witness ==
    /\ phase = "done"
    /\ prev.valid
    /\ prev.file = <<"mit_src", "a.txt">>
    /\ paths = << <<"b.txt">>, <<"mit_src", "a.txt">> >>
    /\ result.hash # prev.built[<<>>].hash

\* C7 (Save idempotence): a repeated save of a Blob or of a Tree returns the
\* hash of the first save and leaves the keys and the contents of the Store
\* as they were.
C7_SaveIdempotence ==
    [][lastSave'.kind # "none" =>
          /\ store' = store
          /\ lastSave'.hash = lastSave'.first]_vars

C7_Witness ==
    /\ lastSave.kind = "tree"
    /\ lastSave.hash = result.hash
    /\ Len(result.entries) = 2

\* the directories a file lies in, the root included
Ancestors(file) == {SubSeq(file, 1, n) : n \in 0..(Len(file) - 1)}

\* C8 (No partial success): a build in which a file cannot be read does not
\* finish; when it fails, no Tree of the failing directory or of a directory
\* above it has been saved by the build; no step removes or changes an
\* object of the Store.
C8_NoPartialSuccess ==
    /\ [](phase = "done" => unreadable = {})
    /\ [](phase = "failed" =>
            /\ \A i \in 1..Len(stack) : stack[i].current_root \notin DOMAIN built
            /\ \A q \in Ancestors(path) : q \notin DOMAIN built)
    /\ [][\A k \in DOMAIN store : k \in DOMAIN store' /\ store'[k] = store[k]]_vars

C8_Witness ==
    /\ phase = "failed"
    /\ Len(stack) = 1
    /\ DOMAIN built = {<<"mit_src">>}
    /\ Cardinality(DOMAIN store) = 2

\* C9 (Subdirectory selection): every recursive call is made with the
\* caller's prefix extended by the one component of the path at hand that
\* follows that prefix.
C9_SubdirectorySelection ==
    \A i \in 2..Len(stack) :
        LET caller == stack[i - 1]
            via    == paths[caller.i]
        IN  stack[i].current_root =
               caller.current_root \o <<via[Len(caller.current_root) + 1]>>

\* the hashes the stored content refers to, when it is a Tree
References(data) ==
    IF Len(data) = 1
    THEN {}
    ELSE {Deserialize(data).entries[i].object_hash :
             i \in 1..Len(Deserialize(data).entries)}

\* C10 (Post-order persistence): in every state of the Store, every
\* object_hash embedded in a stored Tree is a key of the Store.
C10_NoDanglingReference ==
    \A h \in DOMAIN store : \A r \in References(store[h]) : r \in DOMAIN store

C10_Witness ==
    /\ phase = "building"
    /\ Len(stack) = 1
    /\ \E h \in DOMAIN store : Len(store[h]) > 1 /\ References(store[h]) # {}
    /\ Len(top.tree.entries) = 2

=============================================================================
